---- MODULE Spec2Model ----
(***************************************************************************)
(* A model of src/app.py: the grid indexer, the conquest aggregation, the  *)
(* three caches (MUNI_CACHE, RAW_DATA_CACHE, API_RESULT_CACHE) and the     *)
(* request handlers /callback, /logout, /api/stats_history and             *)
(* /api/activities, run by concurrent request threads.                     *)
(*                                                                         *)
(* Scheduling: a handler runs without interruption between two network     *)
(* calls (the activity provider's page request, the geocoder's lookup in a *)
(* pool worker); every network call is a point where other threads run.    *)
(*                                                                         *)
(* Units: a coordinate is an integer number of units of UnitMeters/111320  *)
(* degree, so grid_size_deg = grid_meters / 111320 is grid_meters /        *)
(* UnitMeters units. A start_date_local "YYYY-MM-DDTHH:MM:SSZ" is the      *)
(* number YYYYMMDD: the string order of the fixed-width text is the        *)
(* numeric order. A polyline is kept decoded (polyline.decode is a library *)
(* function); the empty polyline string is the empty sequence.             *)
(***************************************************************************)
EXTENDS Integers, Sequences, FiniteSets, TLC

\* ------------------------------------------------------------ constants

\* 'all', the default of the year and sport filters.
ALL == "all"

\* The model's coordinate unit, in meters of grid size.
UnitMeters == 50

\* ThreadPoolExecutor(max_workers=10), scaled to the model.
MAX_WORKERS == 2

\* sorted_locs[:600], scaled to the model.
SCAN_LIMIT == 3

\* len(identified_cities) < 50, scaled to the model.
MAX_CITIES == 2

\* if page > 10: break, scaled to the model.
MAX_PAGES == 2

\* abs(clat - muni_center) < 0.15 degree, scaled to the model's units.
LAT_BAND == 12

SPORT_TRANSLATIONS ==
    [s \in {"Run", "Ride", "Hike", "Walk", "AlpineSki", "BackcountrySki",
            "VirtualRide", "VirtualRun", "GravelRide", "TrailRun",
            "E-BikeRide", "Velomobile", "NordicSki", "Snowshoe"} |->
       CASE s = "Run" -> "Course a pied"
         [] s = "Ride" -> "Velo"
         [] s = "Hike" -> "Randonnee"
         [] s = "Walk" -> "Marche"
         [] s = "AlpineSki" -> "Ski Alpin"
         [] s = "BackcountrySki" -> "Ski de Rando"
         [] s = "VirtualRide" -> "Velo Virtuel"
         [] s = "VirtualRun" -> "Course Virtuelle"
         [] s = "GravelRide" -> "Gravel"
         [] s = "TrailRun" -> "Trail"
         [] s = "E-BikeRide" -> "Velo Electrique"
         [] s = "Velomobile" -> "Velomobile"
         [] s = "NordicSki" -> "Ski de Fond"
         [] s = "Snowshoe" -> "Raquettes"]

GPS_SPORTS == DOMAIN SPORT_TRANSLATIONS

\* The sport codes in Python's string order (sorted() of a list of str).
SportOrder ==
    <<"AlpineSki", "BackcountrySki", "E-BikeRide", "GravelRide", "Hike",
      "NordicSki", "Ride", "Run", "Snowshoe", "Swim", "TrailRun",
      "Velomobile", "VirtualRide", "VirtualRun", "Walk">>

\* ------------------------------------------------------------ helpers

Range(s) == {s[i] : i \in DOMAIN s}

Min(S) == CHOOSE x \in S : \A y \in S : x <= y

Max(S) == CHOOSE x \in S : \A y \in S : x >= y

Abs(x) == IF x < 0 THEN -x ELSE x

\* d[k] = v on a dict (a function whose domain is its key set).
Put(d, k, v) == [x \in DOMAIN d \cup {k} |-> IF x = k THEN v ELSE d[x]]

\* d.pop(k, None)
Pop(d, k) == [x \in DOMAIN d \ {k} |-> d[x]]

EmptyDict == [x \in {} |-> 0]

RECURSIVE SortedAsc(_)
\* sorted(S) of a set of numbers.
SortedAsc(S) ==
    IF S = {} THEN <<>> ELSE <<Min(S)>> \o SortedAsc(S \ {Min(S)})

RECURSIVE SortedDesc(_)
\* sorted(S, reverse=True) of a set of numbers.
SortedDesc(S) ==
    IF S = {} THEN <<>> ELSE <<Max(S)>> \o SortedDesc(S \ {Max(S)})

\* sorted(S) of a set of sport codes.
SortedSports(S) == SelectSeq(SportOrder, LAMBDA s : s \in S)

RECURSIVE SumSeq(_)
SumSeq(s) == IF s = <<>> THEN 0 ELSE Head(s) + SumSeq(Tail(s))

\* Whether cell a comes before cell b in the iteration order of a set of
\* cells (a fixed order of the set's contents; the model takes the
\* lexicographic one).
CellLess(a, b) == a[1] < b[1] \/ (a[1] = b[1] /\ a[2] < b[2])

RECURSIVE CellSeq(_)
\* The cells of a set in iteration order.
CellSeq(S) ==
    IF S = {} THEN <<>>
    ELSE LET m == CHOOSE x \in S : \A y \in S \ {x} : CellLess(x, y)
         IN  <<m>> \o CellSeq(S \ {m})

\* ------------------------------------------------------------ grid indexer

\* Python's round(p / q) for q > 0: to the nearest integer, a tie to the
\* even one.
RoundHalfEven(p, q) ==
    LET fl  == p \div q
        rem == p - fl * q
    IN  IF 2 * rem < q THEN fl
        ELSE IF 2 * rem > q THEN fl + 1
        ELSE IF fl % 2 = 0 THEN fl ELSE fl + 1

\* to_key on one axis for the value num/den (den > 0):
\* round(round(v / grid_size_deg) * grid_size_deg, 6).
to_key_axis(num, den, grid) == RoundHalfEven(num, den * grid) * grid

\* to_key(lat, lon) of the point (latn/den, lonn/den).
to_key(latn, lonn, den, grid) ==
    <<to_key_axis(latn, den, grid), to_key_axis(lonn, den, grid)>>

\* floor(sqrt(x)) for a natural number x.
Isqrt(x) == CHOOSE n \in 0..x : n * n <= x /\ (n + 1) * (n + 1) > x

\* The squared distance of two points.
Dist2(p, c) == (c[1] - p[1]) * (c[1] - p[1]) + (c[2] - p[2]) * (c[2] - p[2])

\* No interpolation: num_steps of 0.
NumStepsNone(p, c, grid) == 0

\* int(dist / (grid_size_deg * 0.5))
NumSteps(p, c, grid) == Isqrt((4 * Dist2(p, c)) \div (grid * grid))

\* The segment's cells without cells.add(to_key(curr_lat, curr_lon)).
SegmentCellsNoEnd(p, c, grid) ==
    LET n == NumSteps(p, c, grid)
    IN  IF 100 * Dist2(p, c) > 49 * grid * grid
        THEN {to_key(p[1] * (n + 1) + (c[1] - p[1]) * j,
                     p[2] * (n + 1) + (c[2] - p[2]) * j,
                     n + 1, grid) : j \in 1..n}
        ELSE {}

\* The cells added for the segment from p to c: the interpolated points when
\* dist > grid_size_deg * 0.7, then c itself.
SegmentCells(p, c, grid) ==
    LET n == NumSteps(p, c, grid)
        inter ==
            IF 100 * Dist2(p, c) > 49 * grid * grid
            THEN {to_key(p[1] * (n + 1) + (c[1] - p[1]) * j,
                         p[2] * (n + 1) + (c[2] - p[2]) * j,
                         n + 1, grid) : j \in 1..n}
            ELSE {}
    IN  inter \cup {to_key(c[1], c[2], 1, grid)}

get_cells_from_polyline(pts, grid) ==
    IF pts = <<>> THEN {}
    ELSE {to_key(pts[1][1], pts[1][2], 1, grid)}
         \cup UNION {SegmentCells(pts[i - 1], pts[i], grid) : i \in 2..Len(pts)}

\* ------------------------------------------------------------ activities

\* str(dt.year) of a start date.
YearStr(d) ==
    CASE d \div 10000 = 2022 -> "2022"
      [] d \div 10000 = 2023 -> "2023"
      [] d \div 10000 = 2024 -> "2024"
      [] d \div 10000 = 2025 -> "2025"

\* dt.strftime("%Y-%m") of a start date, as the number YYYYMM.
MonthKey(d) == d \div 100

\* The number of a year string, for sorting year strings.
YearNum(y) ==
    CASE y = "2022" -> 2022 [] y = "2023" -> 2023
      [] y = "2024" -> 2024 [] y = "2025" -> 2025

\* grid_size_deg = grid_meters / 111320, in units.
grid_size_deg(grid_meters) == grid_meters \div UnitMeters

\* The cleaning loop of get_strava_activities_cached: the GPS sports with a
\* polyline, in the provider's order.
CleanActivities(all_activities) ==
    SelectSeq(all_activities,
              LAMBDA act : act.type \in GPS_SPORTS /\ act.polyline # <<>>)

RECURSIVE InsertByDate(_, _)
\* act put after the last record of the sorted sequence s that does not start
\* later: one step of a stable sort.
InsertByDate(s, act) ==
    IF s = <<>> THEN <<act>>
    ELSE IF s[Len(s)].start_date_local <= act.start_date_local
         THEN Append(s, act)
         ELSE Append(InsertByDate(SubSeq(s, 1, Len(s) - 1), act), s[Len(s)])

RECURSIVE SortFrom(_, _)
SortFrom(done, rest) ==
    IF rest = <<>> THEN done
    ELSE SortFrom(InsertByDate(done, Head(rest)), Tail(rest))

\* A sort that leaves the list as the provider returned it.
NoSort(activities) == activities

\* activities.sort(key=lambda x: x['start_date_local']): stable, ascending.
SortActivities(activities) == SortFrom(<<>>, activities)

\* Whether the filters keep an activity.
Selected(act, sel_year, sel_sport) ==
    /\ sel_year = ALL \/ YearStr(act.start_date_local) = sel_year
    /\ sel_sport = ALL \/ act.type = sel_sport

\* ------------------------------------------------------------ time series

StatsAcc0 ==
    [monthly_data |-> EmptyDict, global_seen |-> {}, available_years |-> {},
     available_sports |-> {}, total_blocks |-> 0]

\* The loop body with the filter test moved before the two add() calls.
StatsStepFilterFirst(acc, act, grid_meters, sel_year, sel_sport) ==
    IF ~Selected(act, sel_year, sel_sport) THEN acc
    ELSE LET m_key  == MonthKey(act.start_date_local)
             blocks == get_cells_from_polyline(act.polyline,
                                               grid_size_deg(grid_meters))
             fresh  == blocks \ acc.global_seen
             old    == IF m_key \in DOMAIN acc.monthly_data
                       THEN acc.monthly_data[m_key]
                       ELSE [new |-> 0, routine |-> 0]
         IN  [monthly_data |->
                 Put(acc.monthly_data, m_key,
                     [new |-> old.new + Cardinality(fresh),
                      routine |-> old.routine + Cardinality(blocks \ fresh)]),
              global_seen |-> acc.global_seen \cup blocks,
              available_years |->
                 acc.available_years \cup {YearStr(act.start_date_local)},
              available_sports |-> acc.available_sports \cup {act.type},
              total_blocks |-> acc.total_blocks + Cardinality(fresh)]

\* The loop body that counts a seen cell as new again.
StatsStepNoSeen(acc, act, grid_meters, sel_year, sel_sport) ==
    LET acc1 == [acc EXCEPT
                   !.available_years = @ \cup {YearStr(act.start_date_local)},
                   !.available_sports = @ \cup {act.type}]
    IN  IF ~Selected(act, sel_year, sel_sport) THEN acc1
        ELSE LET m_key  == MonthKey(act.start_date_local)
                 blocks == get_cells_from_polyline(act.polyline,
                                                   grid_size_deg(grid_meters))
                 old    == IF m_key \in DOMAIN acc.monthly_data
                           THEN acc.monthly_data[m_key]
                           ELSE [new |-> 0, routine |-> 0]
             IN  [acc1 EXCEPT
                    !.monthly_data =
                        Put(@, m_key,
                            [new |-> old.new + Cardinality(blocks),
                             routine |-> old.routine]),
                    !.global_seen = @ \cup blocks,
                    !.total_blocks = @ + Cardinality(blocks \ acc.global_seen)]

\* One turn of `for act in activities` of get_stats_history.
StatsStep(acc, act, grid_meters, sel_year, sel_sport) ==
    LET acc1 == [acc EXCEPT
                   !.available_years = @ \cup {YearStr(act.start_date_local)},
                   !.available_sports = @ \cup {act.type}]
    IN  IF ~Selected(act, sel_year, sel_sport) THEN acc1
        ELSE LET m_key  == MonthKey(act.start_date_local)
                 blocks == get_cells_from_polyline(act.polyline,
                                                   grid_size_deg(grid_meters))
                 fresh  == blocks \ acc.global_seen
                 old    == IF m_key \in DOMAIN acc.monthly_data
                           THEN acc.monthly_data[m_key]
                           ELSE [new |-> 0, routine |-> 0]
             IN  [acc1 EXCEPT
                    !.monthly_data =
                        Put(@, m_key,
                            [new |-> old.new + Cardinality(fresh),
                             routine |-> old.routine
                                         + Cardinality(blocks \ fresh)]),
                    !.global_seen = @ \cup blocks,
                    !.total_blocks = @ + Cardinality(fresh)]

RECURSIVE StatsLoop(_, _, _, _, _)
StatsLoop(acc, activities, grid_meters, sel_year, sel_sport) ==
    IF activities = <<>> THEN acc
    ELSE StatsLoop(StatsStep(acc, Head(activities), grid_meters, sel_year,
                             sel_sport),
                   Tail(activities), grid_meters, sel_year, sel_sport)

RECURSIVE RunningTotal(_, _)
\* conquest: the running total of the months' new counts.
RunningTotal(explore, i) ==
    IF i = 0 THEN <<>>
    ELSE LET prev == RunningTotal(explore, i - 1)
         IN  Append(prev, (IF i = 1 THEN 0 ELSE prev[i - 1]) + explore[i])

\* available_years: sorted(list(...), reverse=True).
YearsDesc(years) ==
    LET nums == SortedDesc({YearNum(y) : y \in years})
    IN  [i \in DOMAIN nums |-> CHOOSE y \in years : YearNum(y) = nums[i]]

\* The result of get_stats_history from the sorted activity list.
StatsResult(activities, grid_meters, sel_year, sel_sport) ==
    LET acc     == StatsLoop(StatsAcc0, activities, grid_meters, sel_year,
                             sel_sport)
        labels  == SortedAsc(DOMAIN acc.monthly_data)
        explore == [i \in DOMAIN labels |-> acc.monthly_data[labels[i]].new]
    IN  [kind |-> "stats",
         labels |-> labels,
         conquest |-> RunningTotal(explore, Len(labels)),
         exploration |-> explore,
         routine |-> [i \in DOMAIN labels |->
                        acc.monthly_data[labels[i]].routine],
         total_blocks |-> acc.total_blocks,
         available_years |-> YearsDesc(acc.available_years),
         available_sports |-> SortedSports(acc.available_sports)]

\* ------------------------------------------------------------ map tally

MapAcc0 ==
    [coords |-> <<>>, grid_store |-> <<>>, available_years |-> {},
     available_sports |-> {}, total_distance |-> 0, activity_count |-> 0]

RECURSIVE GridAddKeepFirst(_, _, _)
\* The loop over the blocks without the update of 'first'.
GridAddKeepFirst(grid_store, blocks, act_ym) ==
    IF blocks = <<>> THEN grid_store
    ELSE LET b  == Head(blocks)
             s1 == IF \E i \in DOMAIN grid_store : grid_store[i].key = b
                   THEN grid_store
                   ELSE Append(grid_store,
                               [key |-> b, cnt |-> 0, first |-> act_ym,
                                last |-> act_ym])
             i  == CHOOSE j \in DOMAIN s1 : s1[j].key = b
             s2 == [s1 EXCEPT ![i] =
                      [key |-> b, cnt |-> @.cnt + 1,
                       first |-> @.first,
                       last |-> IF act_ym > @.last THEN act_ym ELSE @.last]]
         IN  GridAddKeepFirst(s2, Tail(blocks), act_ym)

RECURSIVE GridAdd(_, _, _)
\* `for b in blocks` of get_activities_route on grid_store, a dict kept as
\* the sequence of its entries in insertion order.
GridAdd(grid_store, blocks, act_ym) ==
    IF blocks = <<>> THEN grid_store
    ELSE LET b  == Head(blocks)
             s1 == IF \E i \in DOMAIN grid_store : grid_store[i].key = b
                   THEN grid_store
                   ELSE Append(grid_store,
                               [key |-> b, cnt |-> 0, first |-> act_ym,
                                last |-> act_ym])
             i  == CHOOSE j \in DOMAIN s1 : s1[j].key = b
             s2 == [s1 EXCEPT ![i] =
                      [key |-> b, cnt |-> @.cnt + 1,
                       first |-> IF act_ym < @.first THEN act_ym ELSE @.first,
                       last |-> IF act_ym > @.last THEN act_ym ELSE @.last]]
         IN  GridAdd(s2, Tail(blocks), act_ym)

\* One turn of `for act in activities` of get_activities_route.
\* total_distance is kept in meters (the code adds distance / 1000).
MapStep(acc, act, grid_meters, sel_year, sel_sport) ==
    LET acc1 == [acc EXCEPT
                   !.available_years = @ \cup {YearStr(act.start_date_local)},
                   !.available_sports = @ \cup {act.type}]
    IN  IF ~Selected(act, sel_year, sel_sport) THEN acc1
        ELSE [acc1 EXCEPT
                !.coords = Append(@, act.polyline),
                !.grid_store =
                    GridAdd(@, CellSeq(get_cells_from_polyline(
                                   act.polyline, grid_size_deg(grid_meters))),
                            MonthKey(act.start_date_local)),
                !.total_distance = @ + act.distance,
                !.activity_count = @ + 1]

RECURSIVE MapLoop(_, _, _, _, _)
MapLoop(acc, activities, grid_meters, sel_year, sel_sport) ==
    IF activities = <<>> THEN acc
    ELSE MapLoop(MapStep(acc, Head(activities), grid_meters, sel_year,
                         sel_sport),
                 Tail(activities), grid_meters, sel_year, sel_sport)

\* grid_store after the loop over the activities.
GridStoreOf(activities, grid_meters, sel_year, sel_sport) ==
    MapLoop(MapAcc0, activities, grid_meters, sel_year, sel_sport).grid_store

\* `data` of get_activities_route before the municipalities are resolved.
MapData(activities, grid_meters, sel_year, sel_sport) ==
    LET acc == MapLoop(MapAcc0, activities, grid_meters, sel_year, sel_sport)
    IN  [kind |-> "act",
         coords |-> acc.coords,
         grid_cells |->
            [i \in DOMAIN acc.grid_store |->
               <<acc.grid_store[i].key[1], acc.grid_store[i].key[2],
                 acc.grid_store[i].cnt, acc.grid_store[i].first,
                 acc.grid_store[i].last>>],
         grid_size_used |-> grid_size_deg(grid_meters),
         available_years |-> YearsDesc(acc.available_years),
         available_sports |->
            [c \in acc.available_sports |->
               IF c \in DOMAIN SPORT_TRANSLATIONS
               THEN SPORT_TRANSLATIONS[c] ELSE c],
         top_municipalities |-> <<>>,
         stats |-> [total_distance |-> acc.total_distance,
                    activity_count |-> acc.activity_count,
                    cells_conquered |-> Len(acc.grid_store)]]

\* ------------------------------------------------------------ municipalities

RECURSIVE InsertByCnt(_, _)
\* e put after the last entry of s whose cnt is not smaller: one step of a
\* stable descending sort.
InsertByCnt(s, e) ==
    IF s = <<>> THEN <<e>>
    ELSE IF s[Len(s)].cnt >= e.cnt THEN Append(s, e)
         ELSE Append(InsertByCnt(SubSeq(s, 1, Len(s) - 1), e), s[Len(s)])

RECURSIVE SortByCnt(_, _)
SortByCnt(done, rest) ==
    IF rest = <<>> THEN done
    ELSE SortByCnt(InsertByCnt(done, Head(rest)), Tail(rest))

\* scan_points: the keys of sorted_locs[:600].
ScanPoints(grid_store) ==
    LET sorted_locs == SortByCnt(<<>>, grid_store)
        n == IF Len(sorted_locs) < SCAN_LIMIT THEN Len(sorted_locs)
             ELSE SCAN_LIMIT
    IN  [i \in 1..n |-> sorted_locs[i].key]

\* The rounding step of round(v, 3): 0.001 degree (111.32 m), in units.
KEY_UNITS == 3

\* key = f"{round(lat, 3)}_{round(lon, 3)}"
MuniKey(lat, lon) ==
    <<RoundHalfEven(lat, KEY_UNITS), RoundHalfEven(lon, KEY_UNITS)>>

\* `data` of fetch_city_data from the geocoder's first result: the surface in
\* hectares times 10000, the contour's [lon, lat] pairs turned to [lat, lon].
CityData(city) ==
    [name |-> city.nom,
     area_m2 |-> city.surface * 10000,
     outline |-> [i \in DOMAIN city.contour |->
                    <<city.contour[i][2], city.contour[i][1]>>]]

\* prepared_poly.contains(Point(clat, clon)) for an outline that is an
\* axis-parallel rectangle: the point is in the interior.
Contains(outline, clat, clon) ==
    LET lats == {outline[i][1] : i \in DOMAIN outline}
        lons == {outline[i][2] : i \in DOMAIN outline}
    IN  /\ Min(lats) < clat /\ clat < Max(lats)
        /\ Min(lons) < clon /\ clon < Max(lons)

\* count_inside: the cells of grid_store in the latitude band of the
\* outline's first vertex and inside the outline.
CountInside(muni, grid_store) ==
    Cardinality({i \in DOMAIN grid_store :
                   /\ Abs(grid_store[i].key[1] - muni.outline[1][1]) < LAT_BAND
                   /\ Contains(muni.outline, grid_store[i].key[1],
                               grid_store[i].key[2])})

\* round(pct, 2), the percentage with no min(pct, 100).
PercentNoCap(count_inside, grid_meters, area_m2) ==
    LET num == count_inside * grid_meters * grid_meters * 100
    IN  IF area_m2 < 0 THEN RoundHalfEven(-(num * 100), -area_m2)
        ELSE RoundHalfEven(num * 100, area_m2)

\* round(min(pct, 100), 2) in hundredths of a percent, for area_m2 # 0, with
\* pct = (count_inside * (grid_meters**2) / muni['area_m2']) * 100.
Percent(count_inside, grid_meters, area_m2) ==
    LET num == count_inside * grid_meters * grid_meters * 100
    IN  IF area_m2 < 0 THEN RoundHalfEven(-(num * 100), -area_m2)
        ELSE IF num >= 100 * area_m2 THEN 10000
        ELSE RoundHalfEven(num * 100, area_m2)

\* Whether the try block of the result loop raises: Polygon() of fewer than
\* three vertices or outline[0][0] of an empty outline, or the division by
\* an area of 0 once a cell is inside.
Raises(muni, grid_store) ==
    \/ Len(muni.outline) < 3
    \/ (CountInside(muni, grid_store) > 0 /\ muni.area_m2 = 0)

\* The result loop's body with the cap test `<=` in place of `<`.
AcceptCityOffByOne(identified_cities, muni, grid_store, grid_meters) ==
    IF /\ \A i \in DOMAIN identified_cities :
             identified_cities[i].name # muni.name
       /\ Len(identified_cities) <= MAX_CITIES
       /\ ~Raises(muni, grid_store)
       /\ CountInside(muni, grid_store) > 0
    THEN Append(identified_cities,
                [name |-> muni.name, outline |-> muni.outline,
                 stats |-> [blocks |-> CountInside(muni, grid_store),
                            percent |-> Percent(CountInside(muni, grid_store),
                                                grid_meters, muni.area_m2)]])
    ELSE identified_cities

\* The body of the result loop after MUNI_CACHE[key] = muni, on
\* identified_cities, a dict kept as the sequence of its values in insertion
\* order.
AcceptCity(identified_cities, muni, grid_store, grid_meters) ==
    IF /\ \A i \in DOMAIN identified_cities :
             identified_cities[i].name # muni.name
       /\ Len(identified_cities) < MAX_CITIES
       /\ ~Raises(muni, grid_store)
       /\ CountInside(muni, grid_store) > 0
    THEN Append(identified_cities,
                [name |-> muni.name, outline |-> muni.outline,
                 stats |-> [blocks |-> CountInside(muni, grid_store),
                            percent |-> Percent(CountInside(muni, grid_store),
                                                grid_meters, muni.area_m2)]])
    ELSE identified_cities

RECURSIVE InsertByBlocks(_, _)
InsertByBlocks(s, e) ==
    IF s = <<>> THEN <<e>>
    ELSE IF s[Len(s)].stats.blocks >= e.stats.blocks THEN Append(s, e)
         ELSE Append(InsertByBlocks(SubSeq(s, 1, Len(s) - 1), e), s[Len(s)])

RECURSIVE SortByBlocks(_, _)
SortByBlocks(done, rest) ==
    IF rest = <<>> THEN done
    ELSE SortByBlocks(InsertByBlocks(done, Head(rest)), Tail(rest))

\* sorted(list(identified_cities.values()),
\*        key=lambda x: x['stats']['blocks'], reverse=True)
TopMunicipalities(identified_cities) == SortByBlocks(<<>>, identified_cities)

\* ------------------------------------------------------------ state

VARIABLES
    session,           \* the access_token of each browser session, or NONE
    MUNI_CACHE,        \* key -> municipality data
    RAW_DATA_CACHE,    \* token -> cleaned activities
    API_RESULT_CACHE,  \* token -> (cache_key -> result)
    req,               \* the request threads: each one's handler state
    strava,            \* the activity provider: token -> pages of activities
    stravaCalls,       \* token -> page requests sent to the provider
    fetches,           \* token -> page-fetch loops begun since its last logout
    firstResult,       \* token -> (cache_key -> the first result stored since
                       \*           the token's last logout)
    quota              \* the requests the environment may still send

vars == <<session, MUNI_CACHE, RAW_DATA_CACHE, API_RESULT_CACHE, req, strava,
          stravaCalls, fetches, firstResult, quota>>

Tokens == {"t1", "t2"}

Sessions == {"s1", "s2"}

\* session.get('access_token') of a session with no token.
NONE == "None"

\* res.json().get('access_token'): the token the provider gives a session's
\* user.
OAuthToken(s) == IF s = "s1" THEN "t1" ELSE "t2"

NoResult == [kind |-> "none"]

\* jsonify({"error": "Login required"}), 401
LoginRequired == [kind |-> "error", status |-> 401]

\* The response to a handler that raised.
ServerError == [kind |-> "error", status |-> 500]

\* A request thread with no handler running.
Idle ==
    [pc |-> "idle", kind |-> "none", token |-> NONE, grid_meters |-> 0,
     sel_year |-> ALL, sel_sport |-> ALL, hit |-> FALSE, page |-> 0,
     all_activities |-> <<>>, grid_store |-> <<>>, data |-> NoResult,
     futures |-> <<>>, identified_cities |-> <<>>, resp |-> NoResult,
     first |-> NoResult]

\* cache_key = f"stats_{grid_meters}_{sel_year}_{sel_sport}" (or "act_...").
CacheKey(q) == <<q.kind, q.grid_meters, q.sel_year, q.sel_sport>>

\* The handler's state once it has returned `resp`.
Returned(q, resp, hit, first) ==
    [Idle EXCEPT !.pc = "done", !.kind = q.kind, !.token = q.token,
                 !.grid_meters = q.grid_meters, !.sel_year = q.sel_year,
                 !.sel_sport = q.sel_sport, !.hit = hit, !.resp = resp,
                 !.first = first]

\* The page the provider returns for `page` (an empty list past the last).
PageOf(pages, page) == IF page \in DOMAIN pages THEN pages[page] ELSE <<>>

\* ------------------------------------------------------------ handlers

\* API_RESULT_CACHE[token][cache_key] = result, then return jsonify(result).
\* The subscript raises KeyError when the token's dict is gone.
StoreResult(r, q, result, api) ==
    IF q.token \in DOMAIN api
    THEN /\ API_RESULT_CACHE' =
                [api EXCEPT ![q.token] = Put(@, CacheKey(q), result)]
         /\ firstResult' =
                IF CacheKey(q) \in DOMAIN firstResult[q.token] THEN firstResult
                ELSE [firstResult EXCEPT
                        ![q.token] = Put(@, CacheKey(q), result)]
         /\ req' = [req EXCEPT ![r] = Returned(q, result, FALSE, NoResult)]
    ELSE /\ API_RESULT_CACHE' = api
         /\ firstResult' = firstResult
         /\ req' = [req EXCEPT ![r] = Returned(q, ServerError, FALSE, NoResult)]

\* executor.submit for every scan point: the futures, none started yet.
Submit(scan_points) ==
    [i \in DOMAIN scan_points |->
       [cell |-> scan_points[i], state |-> "pending", ok |-> FALSE,
        key |-> <<0, 0>>, muni |-> NoResult]]

\* The handler from the return of get_strava_activities_cached to its next
\* network call or its return. `activities` is the list RAW_DATA_CACHE holds
\* for the token in `raw`, so the sort of get_stats_history sorts that entry.
Compute(r, q, activities, raw, api) ==
    IF q.kind = "stats"
    THEN LET sorted == SortActivities(activities)
         IN  /\ RAW_DATA_CACHE' = [raw EXCEPT ![q.token] = sorted]
             /\ StoreResult(r, q,
                            StatsResult(sorted, q.grid_meters, q.sel_year,
                                        q.sel_sport), api)
    ELSE LET grid_store == GridStoreOf(activities, q.grid_meters, q.sel_year,
                                       q.sel_sport)
             data == MapData(activities, q.grid_meters, q.sel_year,
                             q.sel_sport)
         IN  /\ RAW_DATA_CACHE' = raw
             /\ IF grid_store = <<>>
                THEN StoreResult(r, q, data, api)
                ELSE /\ API_RESULT_CACHE' = api
                     /\ firstResult' = firstResult
                     /\ req' = [req EXCEPT ![r] =
                                  [q EXCEPT !.pc = "resolve",
                                            !.all_activities = <<>>,
                                            !.grid_store = grid_store,
                                            !.data = data,
                                            !.futures =
                                                Submit(ScanPoints(grid_store)),
                                            !.identified_cities = <<>>]]

\* The server hands a request to the first thread that runs no handler.
FreeThread(r) ==
    /\ req[r].pc \in {"idle", "done"}
    /\ \A r2 \in DOMAIN req : r2 < r => req[r2].pc \notin {"idle", "done"}

\* /callback: the session gets the user's token.
callback(s) ==
    /\ session[s] = NONE
    /\ session' = [session EXCEPT ![s] = OAuthToken(s)]
    /\ UNCHANGED <<MUNI_CACHE, RAW_DATA_CACHE, API_RESULT_CACHE, req, strava,
                   stravaCalls, fetches, firstResult, quota>>

\* /logout that forgets to drop the computed results.
logoutKeepResults(s) ==
    /\ quota.logouts > 0
    /\ quota' = [quota EXCEPT !.logouts = @ - 1]
    /\ RAW_DATA_CACHE' = Pop(RAW_DATA_CACHE, session[s])
    /\ session' = [session EXCEPT ![s] = NONE]
    /\ fetches' = [t \in Tokens |-> IF t = session[s] THEN 0 ELSE fetches[t]]
    /\ UNCHANGED <<MUNI_CACHE, API_RESULT_CACHE, req, strava, stravaCalls,
                   firstResult>>

\* /logout
logout(s) ==
    /\ quota.logouts > 0
    /\ quota' = [quota EXCEPT !.logouts = @ - 1]
    /\ RAW_DATA_CACHE' = Pop(RAW_DATA_CACHE, session[s])
    /\ API_RESULT_CACHE' = Pop(API_RESULT_CACHE, session[s])
    /\ session' = [session EXCEPT ![s] = NONE]
    /\ fetches' = [t \in Tokens |-> IF t = session[s] THEN 0 ELSE fetches[t]]
    /\ firstResult' = [t \in Tokens |->
                         IF t = session[s] THEN EmptyDict ELSE firstResult[t]]
    /\ UNCHANGED <<MUNI_CACHE, req, strava, stravaCalls>>

\* A query handler that skips the token test.
StartQueryNoAuth(r, s, kind, grid_meters, sel_year, sel_sport) ==
    /\ FreeThread(r)
    /\ quota.queries > 0
    /\ quota' = [quota EXCEPT !.queries = @ - 1]
    /\ LET q == [Idle EXCEPT !.kind = kind, !.token = session[s],
                             !.grid_meters = grid_meters,
                             !.sel_year = sel_year, !.sel_sport = sel_sport]
       IN  /\ API_RESULT_CACHE' =
                  Put(API_RESULT_CACHE, q.token, EmptyDict)
           /\ req' = [req EXCEPT ![r] = Returned(q, NoResult, FALSE, NoResult)]
    /\ UNCHANGED <<session, MUNI_CACHE, RAW_DATA_CACHE, strava, stravaCalls,
                   fetches, firstResult>>

\* get_stats_history / get_activities_route from the request to the first
\* network call or the return: the token test, the result cache, and
\* get_strava_activities_cached's test of RAW_DATA_CACHE.
StartQuery(r, s, kind, grid_meters, sel_year, sel_sport) ==
    /\ FreeThread(r)
    /\ quota.queries > 0
    /\ quota' = [quota EXCEPT !.queries = @ - 1]
    /\ LET q == [Idle EXCEPT !.kind = kind, !.token = session[s],
                             !.grid_meters = grid_meters,
                             !.sel_year = sel_year, !.sel_sport = sel_sport]
           api == IF q.token \in DOMAIN API_RESULT_CACHE THEN API_RESULT_CACHE
                  ELSE Put(API_RESULT_CACHE, q.token, EmptyDict)
       IN  IF q.token = NONE
           THEN /\ req' = [req EXCEPT ![r] =
                             Returned(q, LoginRequired, FALSE, NoResult)]
                /\ UNCHANGED <<RAW_DATA_CACHE, API_RESULT_CACHE, fetches,
                               firstResult>>
           ELSE IF CacheKey(q) \in DOMAIN api[q.token]
           THEN /\ req' = [req EXCEPT ![r] =
                             Returned(q, api[q.token][CacheKey(q)], TRUE,
                                      firstResult[q.token][CacheKey(q)])]
                /\ API_RESULT_CACHE' = api
                /\ UNCHANGED <<RAW_DATA_CACHE, fetches, firstResult>>
           ELSE IF q.token \in DOMAIN RAW_DATA_CACHE
           THEN /\ Compute(r, q, RAW_DATA_CACHE[q.token], RAW_DATA_CACHE, api)
                /\ UNCHANGED fetches
           ELSE /\ req' = [req EXCEPT ![r] =
                             [q EXCEPT !.pc = "fetch", !.page = 1]]
                /\ API_RESULT_CACHE' = api
                /\ fetches' = [fetches EXCEPT ![q.token] = @ + 1]
                /\ UNCHANGED <<RAW_DATA_CACHE, firstResult>>
    /\ UNCHANGED <<session, MUNI_CACHE, strava, stravaCalls>>

\* One turn of the `while True` of get_strava_activities_cached: the page
\* request and what follows its answer. ok = FALSE is a status other than
\* 200 or a raised request.
FetchPage(r, ok) ==
    /\ req[r].pc = "fetch"
    /\ LET q    == req[r]
           data == PageOf(strava[q.token], q.page)
           all  == q.all_activities \o data
       IN  /\ stravaCalls' = [stravaCalls EXCEPT ![q.token] = @ + 1]
           /\ IF ok /\ data # <<>> /\ q.page + 1 <= MAX_PAGES
              THEN /\ req' = [req EXCEPT ![r] =
                                [q EXCEPT !.page = @ + 1,
                                          !.all_activities = all]]
                   /\ UNCHANGED <<RAW_DATA_CACHE, API_RESULT_CACHE,
                                  firstResult>>
              ELSE LET got == IF ok THEN all ELSE q.all_activities
                       cleaned_data == CleanActivities(got)
                   IN  Compute(r, q, cleaned_data,
                               Put(RAW_DATA_CACHE, q.token, cleaned_data),
                               API_RESULT_CACHE)
    /\ UNCHANGED <<session, MUNI_CACHE, strava, fetches, quota>>

\* ------------------------------------------------------------ geocoder

\* The communes the geocoder knows: nom, surface in hectares, and the contour
\* ring as [lon, lat] pairs (two vertices only for a broken contour).
Communes ==
    {[nom |-> "Aville", surface |-> 4,
      contour |-> << <<-1, -1>>, <<1, -1>>, <<1, 1>>, <<-1, 1>> >>],
     [nom |-> "Bourg", surface |-> 1,
      contour |-> << <<-1, 1>>, <<1, 1>>, <<1, 3>>, <<-1, 3>> >>],
     [nom |-> "Cite", surface |-> 8,
      contour |-> << <<-1, 3>>, <<1, 3>>, <<1, 7>>, <<-1, 7>> >>],
     [nom |-> "Dun", surface |-> 2,
      contour |-> << <<-1, 7>>, <<1, 9>> >>],
     [nom |-> "Zero", surface |-> 0,
      contour |-> << <<7, -1>>, <<11, -1>>, <<11, 1>>, <<7, 1>> >>],
     [nom |-> "Petit", surface |-> 1,
      contour |-> << <<11, -1>>, <<13, -1>>, <<13, 1>>, <<11, 1>> >>],
     [nom |-> "Grand", surface |-> 3,
      contour |-> << <<13, -1>>, <<17, -1>>, <<17, 1>>, <<13, 1>> >>]}

\* The communes the geocoder may answer for a point: those whose contour's
\* bounding box holds it.
GeoAnswer(lat, lon) ==
    {c \in Communes :
        LET lons == {c.contour[i][1] : i \in DOMAIN c.contour}
            lats == {c.contour[i][2] : i \in DOMAIN c.contour}
        IN  /\ Min(lats) <= lat /\ lat <= Max(lats)
            /\ Min(lons) <= lon /\ lon <= Max(lons)}

\* The answer of a lookup that timed out, failed, was not a 200 or was empty.
NoAnswer == [nom |-> "", surface |-> 0, contour |-> <<>>]

\* ------------------------------------------------------------ worker pool

Running(q) == {i \in DOMAIN q.futures : q.futures[i].state = "running"}

Pending(q) == {i \in DOMAIN q.futures : q.futures[i].state = "pending"}

\* A pool that starts a task whenever one is queued.
WorkerFreeUnbounded(q) == TRUE

\* A worker of ThreadPoolExecutor(max_workers=10) is free.
WorkerFree(q) == Cardinality(Running(q)) < MAX_WORKERS

\* A free worker takes the oldest queued call of fetch_city_data and runs it
\* to its return (key in MUNI_CACHE) or to its network call.
WorkerStart(r) ==
    /\ req[r].pc = "resolve"
    /\ Pending(req[r]) # {}
    /\ WorkerFree(req[r])
    /\ LET q   == req[r]
           i   == Min(Pending(q))
           key == MuniKey(q.futures[i].cell[1], q.futures[i].cell[2])
       IN  req' = [req EXCEPT ![r].futures[i] =
                     IF key \in DOMAIN MUNI_CACHE
                     THEN [@ EXCEPT !.state = "done", !.ok = TRUE,
                                    !.key = key, !.muni = MUNI_CACHE[key]]
                     ELSE [@ EXCEPT !.state = "running"]]
    /\ UNCHANGED <<session, MUNI_CACHE, RAW_DATA_CACHE, API_RESULT_CACHE,
                   strava, stravaCalls, fetches, firstResult, quota>>

\* fetch_city_data that queues the call again when the lookup fails.
WorkerFinishRetry(r, i, city) ==
    /\ req[r].pc = "resolve"
    /\ i \in Running(req[r])
    /\ LET cell == req[r].futures[i].cell
       IN  /\ city \in GeoAnswer(cell[1], cell[2]) \cup {NoAnswer}
           /\ req' = [req EXCEPT
                        ![r].futures[i] =
                            IF city = NoAnswer
                            THEN [@ EXCEPT !.state = "pending"]
                            ELSE [@ EXCEPT !.state = "done", !.ok = TRUE,
                                           !.key = MuniKey(cell[1], cell[2]),
                                           !.muni = CityData(city)]]
    /\ UNCHANGED <<session, MUNI_CACHE, RAW_DATA_CACHE, API_RESULT_CACHE,
                   strava, stravaCalls, fetches, firstResult, quota>>

\* fetch_city_data from the answer of requests.get to its return: None, or
\* (key, data) built from the first result.
WorkerFinish(r, i, city) ==
    /\ req[r].pc = "resolve"
    /\ i \in Running(req[r])
    /\ LET cell == req[r].futures[i].cell
       IN  /\ city \in GeoAnswer(cell[1], cell[2]) \cup {NoAnswer}
           /\ req' = [req EXCEPT
                        ![r].futures[i] =
                            IF city = NoAnswer
                            THEN [@ EXCEPT !.state = "done"]
                            ELSE [@ EXCEPT !.state = "done", !.ok = TRUE,
                                           !.key = MuniKey(cell[1], cell[2]),
                                           !.muni = CityData(city)]]
    /\ UNCHANGED <<session, MUNI_CACHE, RAW_DATA_CACHE, API_RESULT_CACHE,
                   strava, stravaCalls, fetches, firstResult, quota>>

\* One turn of `for future in as_completed(futures)`; after the last one,
\* the sort of the municipalities and the store of the result.
\* (save_muni_cache writes MUNI_CACHE to the disk and changes nothing here.)
ProcessResult(r, i) ==
    /\ req[r].pc = "resolve"
    /\ i \in DOMAIN req[r].futures
    /\ req[r].futures[i].state = "done"
    /\ LET q0  == req[r]
           f   == q0.futures[i]
           ids == IF f.ok
                  THEN AcceptCity(q0.identified_cities, f.muni, q0.grid_store,
                                  q0.grid_meters)
                  ELSE q0.identified_cities
           q   == [q0 EXCEPT !.futures[i].state = "seen",
                             !.identified_cities = ids]
       IN  /\ MUNI_CACHE' = IF f.ok THEN Put(MUNI_CACHE, f.key, f.muni)
                            ELSE MUNI_CACHE
           /\ IF \A j \in DOMAIN q.futures : q.futures[j].state = "seen"
              THEN StoreResult(r, q,
                               [q.data EXCEPT !.top_municipalities =
                                                  TopMunicipalities(ids)],
                               API_RESULT_CACHE)
              ELSE /\ req' = [req EXCEPT ![r] = q]
                   /\ UNCHANGED <<API_RESULT_CACHE, firstResult>>
    /\ UNCHANGED <<session, RAW_DATA_CACHE, strava, stravaCalls, fetches,
                   quota>>

\* ------------------------------------------------------------ the server

\* Activities the provider holds (newest first, as it lists them).
ActSwim ==
    [type |-> "Swim", start_date_local |-> 20240301,
     polyline |-> << <<6, 0>> >>, distance |-> 800]

ActRunFeb ==
    [type |-> "Run", start_date_local |-> 20240205,
     polyline |-> << <<0, 0>> >>, distance |-> 1200]

ActRideJan ==
    [type |-> "Ride", start_date_local |-> 20240110,
     polyline |-> << <<0, 0>> >>, distance |-> 2500]

ActNoMap ==
    [type |-> "Hike", start_date_local |-> 20240302,
     polyline |-> <<>>, distance |-> 900]

ActRun23 ==
    [type |-> "Run", start_date_local |-> 20230615,
     polyline |-> << <<4, 0>> >>, distance |-> 500]

\* The provider's pages in the server scenario.
ServerStrava ==
    [t \in Tokens |->
       IF t = "t1" THEN << <<ActSwim, ActRunFeb>>, <<ActRideJan>> >>
       ELSE << <<ActNoMap, ActRun23>> >>]

\* The state of a started server whose clients hold the sessions `sess`,
\* with the provider's data and the number of requests the clients send.
InitWith(sess, pages, slots, queries, logouts) ==
    /\ session = sess
    /\ MUNI_CACHE = EmptyDict
    /\ RAW_DATA_CACHE = EmptyDict
    /\ API_RESULT_CACHE = EmptyDict
    /\ req = [r \in slots |-> Idle]
    /\ strava = pages
    /\ stravaCalls = [t \in Tokens |-> 0]
    /\ fetches = [t \in Tokens |-> 0]
    /\ firstResult = [t \in Tokens |-> EmptyDict]
    /\ quota = [queries |-> queries, logouts |-> logouts]

\* The steps of the request threads and of the pool's workers, with the
\* answers the geocoder may give.
Work(answers) ==
    \/ \E r \in DOMAIN req, ok \in BOOLEAN : FetchPage(r, ok)
    \/ \E r \in DOMAIN req : WorkerStart(r)
    \/ \E r \in DOMAIN req, i \in 1..SCAN_LIMIT, c \in answers :
          WorkerFinish(r, i, c)
    \/ \E r \in DOMAIN req, i \in 1..SCAN_LIMIT : ProcessResult(r, i)

\* ---- the server under concurrent requests of two users

\* The bounds of the model.
ServerQueries == 2

ServerLogouts == 1

ServerThreads == 2

\* The queries the clients send: kind, grid_size, year, sport_type.
ServerRequests ==
    {<<"stats", 100, ALL, ALL>>, <<"act", 100, ALL, ALL>>,
     <<"stats", 100, "2024", "Run">>, <<"act", 100, "2024", "Run">>}

Init ==
    InitWith([s \in Sessions |-> OAuthToken(s)], ServerStrava,
             1..ServerThreads, ServerQueries, ServerLogouts)

Next ==
    \/ \E s \in Sessions : callback(s)
    \/ \E s \in Sessions : logout(s)
    \/ \E r \in DOMAIN req, s \in Sessions, f \in ServerRequests :
          StartQuery(r, s, f[1], f[2], f[3], f[4])
    \/ Work(Communes \cup {NoAnswer})

Spec == Init /\ [][Next]_vars

\* ---- one user who repeats queries from several tabs

RequeryQueries == 3

RequeryLogouts == 1

RequeryThreads == 2

RequeryRequests == {<<"stats", 100, ALL, ALL>>, <<"act", 100, ALL, ALL>>}

InitRequery ==
    InitWith([s \in Sessions |-> IF s = "s1" THEN OAuthToken(s) ELSE NONE],
             ServerStrava, 1..RequeryThreads, RequeryQueries, RequeryLogouts)

NextRequery ==
    \/ callback("s1")
    \/ logout("s1")
    \/ \E r \in DOMAIN req, f \in RequeryRequests :
          StartQuery(r, "s1", f[1], f[2], f[3], f[4])
    \/ Work(Communes \cup {NoAnswer})

SpecRequery == InitRequery /\ [][NextRequery]_vars

\* ---- one user, any short activity history, queries one after the other

\* The bounds of the model.
AggQueries == 2

AggMaxActivities == 3

\* The activities a history is drawn from: a path over three cells, a later
\* run that retraces it, a ride elsewhere, an older run that overlaps, a ride
\* that starts with the first run.
AggPool ==
    {[type |-> "Run", start_date_local |-> 20240110,
      polyline |-> << <<0, 0>>, <<4, 0>> >>, distance |-> 4000],
     [type |-> "Run", start_date_local |-> 20240205,
      polyline |-> << <<0, 0>>, <<4, 0>> >>, distance |-> 4100],
     [type |-> "Ride", start_date_local |-> 20240220,
      polyline |-> << <<8, 0>> >>, distance |-> 9000],
     [type |-> "Run", start_date_local |-> 20230615,
      polyline |-> << <<4, 0>>, <<5, 0>> >>, distance |-> 1000],
     [type |-> "Ride", start_date_local |-> 20240110,
      polyline |-> << <<2, 0>> >>, distance |-> 700]}

\* The sequences of at most n distinct members of S.
RECURSIVE Histories(_, _)
Histories(S, n) ==
    IF n = 0 THEN {<<>>}
    ELSE LET shorter == Histories(S, n - 1)
         IN  shorter \cup
             {Append(h, a) : h \in {x \in shorter : Len(x) = n - 1},
                             a \in S}

\* The queries the client sends; the geocoder is out of reach.
AggRequests ==
    {<<k, f[1], f[2], f[3]>> :
        k \in {"stats", "act"},
        f \in {<<100, ALL, ALL>>, <<100, "2024", "Run">>, <<200, ALL, "Run">>}}

InitAgg ==
    \E h \in {x \in Histories(AggPool, AggMaxActivities) :
                \A i, j \in DOMAIN x : i # j => x[i] # x[j]} :
        InitWith([s \in Sessions |-> IF s = "s1" THEN OAuthToken(s) ELSE NONE],
                 [t \in Tokens |-> IF t = "t1" THEN <<h>> ELSE <<>>],
                 1..1, AggQueries, 0)

NextAgg ==
    \/ \E f \in AggRequests : StartQuery(1, "s1", f[1], f[2], f[3], f[4])
    \/ Work({NoAnswer})

SpecAgg == InitAgg /\ [][NextAgg]_vars

\* ---- one user's map queries over a path of several cells

\* The bounds of the model.
ResolveQueries == 2

\* A run over four cells and a later ride over the last two of them.
ActLongRun ==
    [type |-> "Run", start_date_local |-> 20240110,
     polyline |-> << <<0, 0>>, <<6, 0>> >>, distance |-> 6000]

ActShortRide ==
    [type |-> "Ride", start_date_local |-> 20240205,
     polyline |-> << <<4, 0>>, <<6, 0>> >>, distance |-> 2000]

ResolveStrava ==
    [t \in Tokens |-> IF t = "t1" THEN << <<ActShortRide, ActLongRun>> >>
                      ELSE <<>>]

ResolveRequests ==
    {<<"act", 100, ALL, ALL>>, <<"act", 100, ALL, "Run">>}

InitResolve ==
    InitWith([s \in Sessions |-> IF s = "s1" THEN OAuthToken(s) ELSE NONE],
             ResolveStrava, 1..1, ResolveQueries, 0)

NextResolve ==
    \/ \E f \in ResolveRequests : StartQuery(1, "s1", f[1], f[2], f[3], f[4])
    \/ Work(Communes \cup {NoAnswer})

SpecResolve == InitResolve /\ [][NextResolve]_vars

\* ---- one user's map queries where every lookup succeeds

\* The bounds of the model.
MuniQueries == 2

\* A ride along a parallel through three communes, one of them of surface 0,
\* and a walk at its start.
ActEastRide ==
    [type |-> "Ride", start_date_local |-> 20240312,
     polyline |-> << <<0, 10>>, <<0, 16>> >>, distance |-> 6000]

ActEastWalk ==
    [type |-> "Walk", start_date_local |-> 20240402,
     polyline |-> << <<0, 10>> >>, distance |-> 300]

\* Three runs of one cell each, in three communes.
ActRunA ==
    [type |-> "Run", start_date_local |-> 20240501,
     polyline |-> << <<0, 0>> >>, distance |-> 100]

ActRunB ==
    [type |-> "Run", start_date_local |-> 20240502,
     polyline |-> << <<2, 0>> >>, distance |-> 100]

ActRunC ==
    [type |-> "Run", start_date_local |-> 20240503,
     polyline |-> << <<6, 0>> >>, distance |-> 100]

\* The histories the provider may hold for the user.
MuniHistories ==
    {<<ActEastWalk, ActEastRide>>, <<ActRunC, ActRunB, ActRunA>>}

MuniRequests == {<<"act", 100, ALL, ALL>>, <<"act", 200, ALL, ALL>>}

InitMuni ==
    \E h \in MuniHistories :
        InitWith([s \in Sessions |-> IF s = "s1" THEN OAuthToken(s) ELSE NONE],
                 [t \in Tokens |-> IF t = "t1" THEN <<h>> ELSE <<>>],
                 1..1, MuniQueries, 0)

NextMuni ==
    \/ \E f \in MuniRequests : StartQuery(1, "s1", f[1], f[2], f[3], f[4])
    \/ Work(Communes)

SpecMuni == InitMuni /\ [][NextMuni]_vars

\* ---- one user with one activity along any short path

\* The bounds of the model.
CellsQueries == 2

CellsMaxLat == 6

CellsMaxLon == 2

\* The points a path is drawn from.
CellsPoints ==
    {<<lat - 2, lon>> : lat \in 0..CellsMaxLat, lon \in 0..CellsMaxLon}

\* The paths: one point, two points, or three points that start at the
\* origin.
CellsPaths ==
    {<<a>> : a \in CellsPoints}
      \cup {<<a, b>> : a \in CellsPoints, b \in CellsPoints}
      \cup {<<a, b, c>> : a \in {<<0, 0>>}, b \in CellsPoints,
                           c \in {<<4, 2>>, <<1, 0>>}}

CellsRequests ==
    {<<"act", 100, ALL, ALL>>, <<"act", 200, ALL, ALL>>,
     <<"act", 400, ALL, ALL>>, <<"stats", 100, ALL, ALL>>}

InitCells ==
    \E path \in CellsPaths :
        InitWith([s \in Sessions |-> IF s = "s1" THEN OAuthToken(s) ELSE NONE],
                 [t \in Tokens |->
                    IF t = "t1"
                    THEN << <<[type |-> "Run", start_date_local |-> 20240110,
                               polyline |-> path, distance |-> 1000]>> >>
                    ELSE <<>>],
                 1..1, CellsQueries, 0)

NextCells ==
    \/ \E f \in CellsRequests : StartQuery(1, "s1", f[1], f[2], f[3], f[4])
    \/ Work({NoAnswer})

SpecCells == InitCells /\ [][NextCells]_vars

\* ------------------------------------------------------------ claims

\* C1: a query answered from the result cache returns the first result that
\* was computed for its credential and filters since the credential's last
\* logout (and, being answered at once, sends the provider nothing).
C1_RequeryReturnsFirstResult ==
    \A r \in DOMAIN req :
        (req[r].pc = "done" /\ req[r].hit) => req[r].resp = req[r].first

\* C2: between two logouts of a credential the page-fetch loop of
\* get_strava_activities_cached is begun at most once for it.
C2_FetchedOncePerCredential == \A t \in Tokens : fetches[t] <= 1

\* C3: logout removes the credential's entry from RAW_DATA_CACHE and from
\* API_RESULT_CACHE (every key of it), and leaves the entries of the other
\* credentials and the whole MUNI_CACHE as they were.
C3_LogoutInvalidatesOnlyItsCredential ==
    [][\A s \in Sessions :
         logout(s) =>
           /\ session[s] \notin DOMAIN RAW_DATA_CACHE'
           /\ session[s] \notin DOMAIN API_RESULT_CACHE'
           /\ DOMAIN RAW_DATA_CACHE' = DOMAIN RAW_DATA_CACHE \ {session[s]}
           /\ DOMAIN API_RESULT_CACHE' = DOMAIN API_RESULT_CACHE \ {session[s]}
           /\ \A t \in DOMAIN RAW_DATA_CACHE' :
                 RAW_DATA_CACHE'[t] = RAW_DATA_CACHE[t]
           /\ \A t \in DOMAIN API_RESULT_CACHE' :
                 API_RESULT_CACHE'[t] = API_RESULT_CACHE[t]
           /\ MUNI_CACHE' = MUNI_CACHE]_vars

\* A logout of t1 has emptied its entries (its activities had been fetched
\* and no request is running), and t2 still has activities and results.
C3_LoggedOutBesideOtherUser ==
    /\ session["s1"] = NONE
    /\ quota.logouts < ServerLogouts
    /\ stravaCalls["t1"] > 0
    /\ \A r \in DOMAIN req : req[r].pc \in {"idle", "done"}
    /\ "t1" \notin DOMAIN RAW_DATA_CACHE
    /\ "t1" \notin DOMAIN API_RESULT_CACHE
    /\ "t2" \in DOMAIN RAW_DATA_CACHE
    /\ "t2" \in DOMAIN API_RESULT_CACHE
    /\ API_RESULT_CACHE["t2"] # EmptyDict

\* C4: a query with no credential in the session is answered 401 at once
\* (it never reaches a network call) and changes no cache entry.
C4_UnauthenticatedRejectedUnchanged ==
    [][\A r \in DOMAIN req, s \in Sessions, f \in ServerRequests :
         (session[s] = NONE /\ StartQuery(r, s, f[1], f[2], f[3], f[4])) =>
           /\ req'[r].pc = "done"
           /\ req'[r].resp = LoginRequired
           /\ \A r2 \in DOMAIN req \ {r} : req'[r2] = req[r2]
           /\ UNCHANGED <<MUNI_CACHE, RAW_DATA_CACHE, API_RESULT_CACHE,
                          stravaCalls, fetches>>]_vars

\* A query was rejected while the caches held another user's data.
C4_RejectedWithCachesFilled ==
    \E r \in DOMAIN req :
        /\ req[r].pc = "done"
        /\ req[r].resp = LoginRequired
        /\ RAW_DATA_CACHE # EmptyDict
        /\ \E t \in DOMAIN API_RESULT_CACHE : API_RESULT_CACHE[t] # EmptyDict

\* The results the cache holds for a token under the keys of one query kind.
ResultsOf(t, kind) ==
    {API_RESULT_CACHE[t][k] :
        k \in {x \in DOMAIN API_RESULT_CACHE[t] : x[1] = kind}}

StatsResults == UNION {ResultsOf(t, "stats") : t \in DOMAIN API_RESULT_CACHE}

\* C5: in every time-series result total_blocks is the sum of exploration,
\* conquest[i] is exploration[1] + ... + exploration[i], and the last
\* conquest value is total_blocks.
C5_ConquestIsPrefixSum ==
    \A R \in StatsResults :
        /\ Len(R.conquest) = Len(R.labels)
        /\ Len(R.exploration) = Len(R.labels)
        /\ R.total_blocks = SumSeq(R.exploration)
        /\ \A i \in DOMAIN R.conquest :
              R.conquest[i] = SumSeq(SubSeq(R.exploration, 1, i))
        /\ R.labels # <<>> => R.conquest[Len(R.labels)] = R.total_blocks

\* A time-series result over several months, with new cells in two of them
\* and cells seen again.
C5_SeveralMonthsCounted ==
    \E R \in StatsResults :
        /\ Len(R.labels) >= 2
        /\ \E i, j \in DOMAIN R.exploration :
              i # j /\ R.exploration[i] > 0 /\ R.exploration[j] > 0
        /\ \E i \in DOMAIN R.routine : R.routine[i] > 0

\* The cells of an activity at a grid size in meters.
CellsOf(act, grid_meters) ==
    get_cells_from_polyline(act.polyline, grid_size_deg(grid_meters))

\* The activities of a list that the filters keep, as positions of the list.
Kept(acts, sel_year, sel_sport) ==
    {i \in DOMAIN acts : Selected(acts[i], sel_year, sel_sport)}

\* The month of the earliest start among the kept activities through cell c.
FirstMonth(acts, kept, grid_meters, c) ==
    MonthKey(Min({acts[i].start_date_local :
                    i \in {j \in kept : c \in CellsOf(acts[j], grid_meters)}}))

\* The cells whose earliest kept activity starts in month m.
NewIn(acts, kept, grid_meters, m) ==
    {c \in UNION {CellsOf(acts[i], grid_meters) : i \in kept} :
        FirstMonth(acts, kept, grid_meters, c) = m}

RECURSIVE VisitsIn(_, _, _, _)
\* The number of (activity, cell) pairs of the kept activities of month m.
VisitsIn(acts, kept, grid_meters, m) ==
    IF kept = {} THEN 0
    ELSE LET i == CHOOSE j \in kept : TRUE
         IN  (IF MonthKey(acts[i].start_date_local) = m
              THEN Cardinality(CellsOf(acts[i], grid_meters)) ELSE 0)
             + VisitsIn(acts, kept \ {i}, grid_meters, m)

\* C6: whatever order the provider listed the activities in, a month's
\* exploration counts the cells whose earliest kept activity starts in that
\* month, and its routine counts every other visit of a cell by a kept
\* activity of that month.
C6_ConquestIsChronological ==
    \A t \in DOMAIN API_RESULT_CACHE :
      \A k \in {x \in DOMAIN API_RESULT_CACHE[t] : x[1] = "stats"} :
        LET R    == API_RESULT_CACHE[t][k]
            acts == RAW_DATA_CACHE[t]
            kept == Kept(acts, k[3], k[4])
        IN  /\ R.labels =
                  SortedAsc({MonthKey(acts[i].start_date_local) : i \in kept})
            /\ \A i \in DOMAIN R.labels :
                  /\ R.exploration[i] =
                        Cardinality(NewIn(acts, kept, k[2], R.labels[i]))
                  /\ R.routine[i] =
                        VisitsIn(acts, kept, k[2], R.labels[i])
                        - Cardinality(NewIn(acts, kept, k[2], R.labels[i]))

\* The provider listed a later activity before an earlier one, and the
\* time-series result has a month that only retraces cells (no new cell,
\* some routine) after a month with new cells.
C6_RetraceListedFirst ==
    /\ strava["t1"] # <<>>
    /\ strava["t1"][1] # SortActivities(strava["t1"][1])
    /\ \E R \in StatsResults :
          \E i, j \in DOMAIN R.labels :
              /\ i < j
              /\ R.exploration[i] > 0
              /\ R.exploration[j] = 0
              /\ R.routine[j] > 0

\* The sport codes a result offers.
SportCodes(R) ==
    IF R.kind = "stats" THEN Range(R.available_sports)
    ELSE DOMAIN R.available_sports

\* C7: every result computed for a credential, of either kind and for any
\* filters, offers the years and the sports of all its activities.
C7_AvailableFiltersIgnoreFilters ==
    \A t \in DOMAIN API_RESULT_CACHE :
      \A k \in DOMAIN API_RESULT_CACHE[t] :
        LET R == API_RESULT_CACHE[t][k]
        IN  /\ R.available_years =
                  YearsDesc({YearStr(a.start_date_local) :
                               a \in Range(RAW_DATA_CACHE[t])})
            /\ SportCodes(R) = {a.type : a \in Range(RAW_DATA_CACHE[t])}
            /\ \A k2 \in DOMAIN API_RESULT_CACHE[t] :
                  /\ API_RESULT_CACHE[t][k2].available_years = R.available_years
                  /\ SportCodes(API_RESULT_CACHE[t][k2]) = SportCodes(R)

\* A time-series and a map result, both filtered to 2024 runs, offer a year
\* and a sport their filters exclude.
C7_FilteredResultsOfferAll ==
    /\ "t1" \in DOMAIN API_RESULT_CACHE
    /\ \E k1, k2 \in DOMAIN API_RESULT_CACHE["t1"] :
        /\ k1[1] = "stats" /\ k2[1] = "act"
        /\ k1[3] = "2024" /\ k2[3] = "2024"
        /\ k1[4] = "Run" /\ k2[4] = "Run"
        /\ "2023" \in Range(API_RESULT_CACHE["t1"][k1].available_years)
        /\ "Ride" \in SportCodes(API_RESULT_CACHE["t1"][k1])
        /\ "2023" \in Range(API_RESULT_CACHE["t1"][k2].available_years)
        /\ "Ride" \in SportCodes(API_RESULT_CACHE["t1"][k2])

\* ---- the resolution of the municipalities (SpecResolve)

\* How far the call behind a future has got.
FutureRank(state) ==
    CASE state = "pending" -> 0
      [] state = "running" -> 1
      [] state = "done" -> 2
      [] state = "seen" -> 3

\* The names of a sequence of municipalities.
NamesOf(cities) == {cities[i].name : i \in DOMAIN cities}

\* grid_store of the map query a request thread answered or answers.
QueryGrid(q) ==
    GridStoreOf(RAW_DATA_CACHE[q.token], q.grid_meters, q.sel_year,
                q.sel_sport)

\* C8: a failed municipality lookup is skipped and nothing else.  In every
\* step of a map query that resolves municipalities: no call goes back to an
\* earlier stage (a failed call is not run again), a failed call stays failed
\* and the turn of the result loop that sees it leaves identified_cities and
\* MUNI_CACHE as they were, the data computed before the lookups is never
\* touched, and the query leaves the resolution only by returning a map
\* response, after every call has finished, whose coords, grid_cells and
\* stats are those computed from the activities alone.
C8_FailedLookupIsSkipped ==
    [][\A r \in DOMAIN req :
         LET q == req[r]
             n == req'[r]
         IN  q.pc = "resolve" =>
               /\ n.pc \in {"resolve", "done"}
               /\ n.pc = "resolve" =>
                    /\ n.data = q.data
                    /\ n.grid_store = q.grid_store
                    /\ DOMAIN n.futures = DOMAIN q.futures
                    /\ \A i \in DOMAIN q.futures :
                         /\ FutureRank(n.futures[i].state)
                              >= FutureRank(q.futures[i].state)
                         /\ (q.futures[i].state = "done" /\ ~q.futures[i].ok)
                              => /\ ~n.futures[i].ok
                                 /\ n.futures[i].state = "seen"
                                      => /\ n.identified_cities
                                              = q.identified_cities
                                         /\ MUNI_CACHE' = MUNI_CACHE
               /\ n.pc = "done" =>
                    /\ \A i \in DOMAIN q.futures :
                         q.futures[i].state \in {"done", "seen"}
                    /\ n.resp.kind = "act"
                    /\ LET d == MapData(RAW_DATA_CACHE[q.token],
                                        q.grid_meters, q.sel_year,
                                        q.sel_sport)
                       IN  /\ n.resp.grid_cells = d.grid_cells
                           /\ n.resp.stats = d.stats
                           /\ n.resp.coords = d.coords
                    /\ (\A i \in DOMAIN q.futures :
                          q.futures[i].state = "done" => ~q.futures[i].ok)
                         => n.resp.top_municipalities
                              = TopMunicipalities(q.identified_cities)]_vars

\* C8 witness: the first map query has returned a response with a
\* municipality in it although the lookup of one of its scan points failed
\* (a lookup that succeeds leaves its key in MUNI_CACHE).
C8_ReturnedAfterFailedLookup ==
    /\ req[1].pc = "done"
    /\ req[1].resp.kind = "act"
    /\ ~req[1].hit
    /\ quota.queries = ResolveQueries - 1
    /\ req[1].resp.top_municipalities # <<>>
    /\ \E c \in Range(ScanPoints(QueryGrid(req[1]))) :
          MuniKey(c[1], c[2]) \notin DOMAIN MUNI_CACHE

\* C9: top_municipalities never holds more than MAX_CITIES entries and no
\* two of the same name, during the resolution and in every map result; and
\* once MAX_CITIES names are accepted, the calls already submitted still run
\* to their end (the query returns only when none is queued or running) and
\* what they return is not added.
C9_MunicipalitiesCappedAndDistinct ==
    [][\A r \in DOMAIN req :
         LET q == req[r]
             n == req'[r]
         IN  /\ Len(n.identified_cities) <= MAX_CITIES
             /\ \A i, j \in DOMAIN n.identified_cities :
                   n.identified_cities[i].name = n.identified_cities[j].name
                     => i = j
             /\ (n.pc = "done" /\ n.resp.kind = "act") =>
                   /\ Len(n.resp.top_municipalities) <= MAX_CITIES
                   /\ \A i, j \in DOMAIN n.resp.top_municipalities :
                         n.resp.top_municipalities[i].name
                           = n.resp.top_municipalities[j].name => i = j
             /\ (q.pc = "resolve" /\ Len(q.identified_cities) = MAX_CITIES) =>
                   /\ n.pc = "resolve" =>
                         /\ n.identified_cities = q.identified_cities
                         /\ \A i \in DOMAIN q.futures :
                               FutureRank(n.futures[i].state)
                                 >= FutureRank(q.futures[i].state)
                   /\ n.pc = "done" =>
                         /\ \A i \in DOMAIN q.futures :
                               q.futures[i].state \in {"done", "seen"}
                         /\ n.resp.top_municipalities
                              = TopMunicipalities(q.identified_cities)]_vars

\* C9 witness: a map query has returned MAX_CITIES municipalities while a
\* lookup of the same query brought one more, with cells of the query inside
\* it, that the result does not hold.
C9_MunicipalityBeyondTheCap ==
    /\ req[1].pc = "done"
    /\ req[1].resp.kind = "act"
    /\ ~req[1].hit
    /\ quota.queries = ResolveQueries - 1
    /\ Len(req[1].resp.top_municipalities) = MAX_CITIES
    /\ \E k \in DOMAIN MUNI_CACHE :
          /\ MUNI_CACHE[k].name \notin NamesOf(req[1].resp.top_municipalities)
          /\ ~Raises(MUNI_CACHE[k], QueryGrid(req[1]))
          /\ CountInside(MUNI_CACHE[k], QueryGrid(req[1])) > 0

\* C10: within one map query never more than MAX_WORKERS lookups are running
\* at once, and the lookups submitted are one for each of the scan points,
\* which are distinct cells of the query's grid and at most SCAN_LIMIT.
C10_LookupsBounded ==
    \A r \in DOMAIN req :
       LET q == req[r]
       IN  /\ Cardinality(Running(q)) <= MAX_WORKERS
           /\ Len(q.futures) <= SCAN_LIMIT
           /\ \A i, j \in DOMAIN q.futures :
                 q.futures[i].cell = q.futures[j].cell => i = j
           /\ q.pc = "resolve" =>
                 /\ Len(q.futures) = Min({SCAN_LIMIT, Len(q.grid_store)})
                 /\ \A i \in DOMAIN q.futures :
                       \E g \in DOMAIN q.grid_store :
                          q.grid_store[g].key = q.futures[i].cell

\* C10 witness: every worker is busy with a lookup, another lookup waits for
\* a worker, and the query has more cells than are scanned.
C10_PoolFullAndCellsBeyondScan ==
    \E r \in DOMAIN req :
       /\ req[r].pc = "resolve"
       /\ Cardinality(Running(req[r])) = MAX_WORKERS
       /\ Pending(req[r]) # {}
       /\ Len(req[r].grid_store) > SCAN_LIMIT

\* ---- percentages and completion order (SpecMuni)

\* The municipalities a map query holds: those accepted so far while it
\* resolves, and those of the response it returned.
CitiesOf(q) ==
    Range(q.identified_cities)
      \cup (IF q.resp.kind = "act" THEN Range(q.resp.top_municipalities)
            ELSE {})

\* C11: every municipality of a map query, whatever the number of cells
\* inside it, the grid size and its area, has a percentage from 0 to 100
\* (0 to 10000 hundredths); a commune of area 0 gives no entry, and no query
\* ends with an error.
C11_PercentWithinBounds ==
    \A r \in DOMAIN req :
       /\ \A c \in CitiesOf(req[r]) :
             /\ 0 <= c.stats.percent /\ c.stats.percent <= 10000
             /\ \A m \in Communes : m.surface = 0 => c.name # m.nom
       /\ req[r].resp.kind # "error"

\* C11 witness: a map query has returned after the lookup of a commune of
\* area 0 that holds one of its cells, with one municipality at the cap of
\* 100 and another one in the result.
C11_ZeroAreaSkippedAndCapReached ==
    /\ req[1].pc = "done"
    /\ req[1].resp.kind = "act"
    /\ \E k \in DOMAIN MUNI_CACHE :
          /\ MUNI_CACHE[k].area_m2 = 0
          /\ Len(MUNI_CACHE[k].outline) >= 3
          /\ CountInside(MUNI_CACHE[k], QueryGrid(req[1])) > 0
    /\ \E c \in Range(req[1].resp.top_municipalities) :
          c.stats.percent = 10000
    /\ Len(req[1].resp.top_municipalities) = 2

\* ---- the cells of a path (SpecCells)

\* The integer nearest to num/den (den > 0), the even one on a tie.
NearestIndex(num, den) ==
    CHOOSE k \in -20..20 :
       \/ 2 * Abs(num - k * den) < den
       \/ 2 * Abs(num - k * den) = den /\ k % 2 = 0

\* The number of interpolated points between p and c: none when they are no
\* farther apart than 0.7 of the grid size, else the largest n with
\* n * (grid / 2) <= dist.
InterCount(p, c, grid) ==
    IF 100 * Dist2(p, c) <= 49 * grid * grid THEN 0
    ELSE CHOOSE n \in 0..40 :
            /\ n * n * grid * grid <= 4 * Dist2(p, c)
            /\ (n + 1) * (n + 1) * grid * grid > 4 * Dist2(p, c)

\* The grid indices of the j-th of n interpolated points between p and c.
InterIndex(p, c, grid, n, j) ==
    <<NearestIndex(p[1] * (n + 1) + (c[1] - p[1]) * j, (n + 1) * grid),
      NearestIndex(p[2] * (n + 1) + (c[2] - p[2]) * j, (n + 1) * grid)>>

\* The grid indices of a path point.
PointIndex(p, grid) == <<NearestIndex(p[1], grid), NearestIndex(p[2], grid)>>

\* The indices of the points canonicalized for the segment from p to c after
\* p itself, in order.
SegmentChain(p, c, grid) ==
    LET n == InterCount(p, c, grid)
    IN  [j \in 1..(n + 1) |->
           IF j <= n THEN InterIndex(p, c, grid, n, j)
           ELSE PointIndex(c, grid)]

RECURSIVE ChainFrom(_, _, _)
\* The indices of all points canonicalized for the path pts from its i-th
\* point on, in path order.
ChainFrom(pts, i, grid) ==
    IF i > Len(pts) THEN <<>>
    ELSE (IF i = 1 THEN <<PointIndex(pts[1], grid)>>
          ELSE SegmentChain(pts[i - 1], pts[i], grid))
         \o ChainFrom(pts, i + 1, grid)

\* The cell of grid indices.
CellAt(idx, grid) == <<idx[1] * grid, idx[2] * grid>>

\* The cells of a map response.
ResponseCells(R) == {<<R.grid_cells[i][1], R.grid_cells[i][2]>> :
                       i \in DOMAIN R.grid_cells}

\* The map results stored for t1 with the grid size in units and, when t1's
\* one activity is stored, its path.
CellResults ==
    IF "t1" \in DOMAIN API_RESULT_CACHE /\ "t1" \in DOMAIN RAW_DATA_CACHE
       /\ RAW_DATA_CACHE["t1"] # <<>>
    THEN {[cells |-> ResponseCells(API_RESULT_CACHE["t1"][k]),
           grid |-> k[2] \div UnitMeters,
           pts |-> RAW_DATA_CACHE["t1"][1].polyline] :
            k \in {x \in DOMAIN API_RESULT_CACHE["t1"] :
                     x[1] = "act"
                     /\ API_RESULT_CACHE["t1"][x].grid_cells # <<>>}}
    ELSE {}

\* Two consecutive points farther apart than 0.7 of the grid size.
FarApart(p, c, grid) == 100 * Dist2(p, c) > 49 * grid * grid

\* The cells of the interpolated points between p and c.
InterCells(p, c, grid) ==
    {CellAt(InterIndex(p, c, grid, InterCount(p, c, grid), j), grid) :
        j \in 1..InterCount(p, c, grid)}

\* Grid indices at most one step apart on each axis.
Adjacent(a, b) == Abs(a[1] - b[1]) <= 1 /\ Abs(a[2] - b[2]) <= 1

\* C12 as the spec states it: for two consecutive points farther apart than
\* 0.7 of the grid size, the cell set holds an interpolated cell that is
\* neither the first point's cell nor the second's.
C12_InterpolatedCellBetween ==
    \A x \in CellResults :
       \A i \in 2..Len(x.pts) :
          FarApart(x.pts[i - 1], x.pts[i], x.grid) =>
             \E c \in InterCells(x.pts[i - 1], x.pts[i], x.grid) \cap x.cells :
                /\ c # CellAt(PointIndex(x.pts[i - 1], x.grid), x.grid)
                /\ c # CellAt(PointIndex(x.pts[i], x.grid), x.grid)

\* C12 amended: for two consecutive points farther apart than 0.7 of the grid
\* size, at least one point is interpolated and the cell of every
\* interpolated point is in the set; one of them differs from both end cells
\* when the end cells are two or more steps apart on an axis (nearer end
\* cells have no cell between them).
C12_InterpolatedCellsIncluded ==
    \A x \in CellResults :
       \A i \in 2..Len(x.pts) :
          LET p == x.pts[i - 1]
              c == x.pts[i]
          IN  FarApart(p, c, x.grid) =>
                /\ InterCount(p, c, x.grid) >= 1
                /\ InterCells(p, c, x.grid) \subseteq x.cells
                /\ ~Adjacent(PointIndex(p, x.grid), PointIndex(c, x.grid)) =>
                      \E m \in InterCells(p, c, x.grid) :
                         /\ m # CellAt(PointIndex(p, x.grid), x.grid)
                         /\ m # CellAt(PointIndex(c, x.grid), x.grid)

\* C12 witness: a stored map result of a two-point path whose points are
\* farther apart than 0.7 of the grid size and whose cells are all end cells,
\* and one of a path with a cell strictly between its end cells.
C12_FarPointsInNeighbouringCells ==
    /\ \E x \in CellResults :
          /\ Len(x.pts) = 2
          /\ FarApart(x.pts[1], x.pts[2], x.grid)
          /\ x.cells = {CellAt(PointIndex(x.pts[1], x.grid), x.grid),
                        CellAt(PointIndex(x.pts[2], x.grid), x.grid)}
          /\ Cardinality(x.cells) = 2
    /\ \E x \in CellResults :
          /\ Len(x.pts) = 2
          /\ Cardinality(x.cells) >= 4

\* C14: the points canonicalized along a path, each path point and each
\* interpolated point in path order, fall in cells at most one step apart
\* on each axis from the one before; the returned set is exactly the cells
\* of these points and holds the first point's and the last point's cell.
C14_CellsFormAChain ==
    \A x \in CellResults :
       LET chain == ChainFrom(x.pts, 1, x.grid)
       IN  /\ x.cells = {CellAt(chain[i], x.grid) : i \in DOMAIN chain}
           /\ \A i \in 2..Len(chain) : Adjacent(chain[i - 1], chain[i])
           /\ CellAt(PointIndex(x.pts[1], x.grid), x.grid) \in x.cells
           /\ CellAt(PointIndex(x.pts[Len(x.pts)], x.grid), x.grid)
                \in x.cells

\* C14 witness: a stored map result of a three-point path with a diagonal
\* segment over several cells.
C14_LongDiagonalPath ==
    \E x \in CellResults :
       /\ Len(x.pts) = 3
       /\ Cardinality(x.cells) >= 5
       /\ \E i \in 2..3 : /\ x.pts[i][1] # x.pts[i - 1][1]
                          /\ x.pts[i][2] # x.pts[i - 1][2]
                          /\ InterCount(x.pts[i - 1], x.pts[i], x.grid) >= 3

\* ---- the server's stores under logout and concurrent queries

\* C13: over any sequence of queries and logouts, no more than MAX_PAGES
\* activity pages are requested from the provider for one credential.
C13_PageCapPerCredential == \A t \in Tokens : stravaCalls[t] <= MAX_PAGES

\* C15: an authenticated query never ends with an error, whatever logout
\* runs while it is computing.
C15_AuthenticatedQueryNeverFails ==
    \A r \in DOMAIN req :
       (req[r].pc = "done" /\ req[r].token # NONE) =>
          req[r].resp.kind # "error"

\* C16: a credential that no session holds and for which no query is
\* running has no entry in RAW_DATA_CACHE nor in API_RESULT_CACHE.
C16_NoEntryAfterLogout ==
    \A t \in Tokens :
       (/\ \A s \in Sessions : session[s] # t
        /\ \A r \in DOMAIN req :
              req[r].token = t => req[r].pc \in {"idle", "done"})
         => /\ t \notin DOMAIN RAW_DATA_CACHE
            /\ t \notin DOMAIN API_RESULT_CACHE

\* ---- the order of the lookups' completion (SpecMuni)

RECURSIVE AcceptInOrder(_, _, _, _, _)
\* identified_cities when the lookups of the scan points from the i-th on
\* complete in the order of their submission, each with the commune the
\* geocoder has for its cell.
AcceptInOrder(ids, scan, i, grid_store, grid_meters) ==
    IF i > Len(scan) THEN ids
    ELSE LET city == CHOOSE c \in GeoAnswer(scan[i][1], scan[i][2]) : TRUE
         IN  AcceptInOrder(AcceptCity(ids, CityData(city), grid_store,
                                      grid_meters),
                           scan, i + 1, grid_store, grid_meters)

\* C17: with every lookup answered by the commune of its cell, the
\* top_municipalities of a stored map result is the same list whatever the
\* order in which the lookups completed: the list that the order of
\* submission gives.
C17_TopIndependentOfCompletionOrder ==
    "t1" \in DOMAIN API_RESULT_CACHE /\ "t1" \in DOMAIN RAW_DATA_CACHE =>
       \A k \in DOMAIN API_RESULT_CACHE["t1"] :
          k[1] = "act" =>
             LET gs == GridStoreOf(RAW_DATA_CACHE["t1"], k[2], k[3], k[4])
             IN  API_RESULT_CACHE["t1"][k].top_municipalities
                   = TopMunicipalities(
                        AcceptInOrder(<<>>, ScanPoints(gs), 1, gs, k[2]))

\* ---- the stored activities and boundaries

\* C18: once RAW_DATA_CACHE holds the activities of a credential, no step
\* changes the stored sequence, neither its records nor their order, while
\* the entry exists.
C18_StoredActivitiesNeverChange ==
    [][\A t \in DOMAIN RAW_DATA_CACHE \cap DOMAIN RAW_DATA_CACHE' :
          RAW_DATA_CACHE'[t] = RAW_DATA_CACHE[t]]_vars

\* C19: once MUNI_CACHE holds a boundary under a key, no step removes the
\* key or puts a different boundary under it.
C19_BoundaryNeverReplaced ==
    [][\A k \in DOMAIN MUNI_CACHE :
          /\ k \in DOMAIN MUNI_CACHE'
          /\ MUNI_CACHE'[k] = MUNI_CACHE[k]]_vars

\* ---- the two query kinds side by side (SpecAgg)

\* exploration of the month m in a time-series result (0 for a month that
\* is no label).
ExplorationOf(R, m) ==
    IF \E i \in DOMAIN R.labels : R.labels[i] = m
    THEN R.exploration[CHOOSE i \in DOMAIN R.labels : R.labels[i] = m]
    ELSE 0

\* The number of cells of a map result first seen in the month m.
FirstSeenIn(R, m) ==
    Cardinality({i \in DOMAIN R.grid_cells : R.grid_cells[i][4] = m})

\* C20: a time-series result and a map result for the same credential, grid
\* size and filters agree: total_blocks is cells_conquered, and the
\* exploration of every month is the number of cells first seen in it.
C20_QueryKindsAgree ==
    "t1" \in DOMAIN API_RESULT_CACHE =>
       \A k1, k2 \in DOMAIN API_RESULT_CACHE["t1"] :
          (/\ k1[1] = "stats" /\ k2[1] = "act"
           /\ k1[2] = k2[2] /\ k1[3] = k2[3] /\ k1[4] = k2[4]) =>
             LET S == API_RESULT_CACHE["t1"][k1]
                 A == API_RESULT_CACHE["t1"][k2]
             IN  /\ S.total_blocks = A.stats.cells_conquered
                 /\ \A m \in Range(S.labels)
                            \cup {A.grid_cells[i][4] : i \in DOMAIN A.grid_cells} :
                       ExplorationOf(S, m) = FirstSeenIn(A, m)

\* C20 witness: a time-series and a map result of the same filters over
\* activities of two months or more, with a cell visited in two months, the
\* map one computed from a list whose first path is not that of the earliest
\* activity.
C20_BothKindsOverSeveralMonths ==
    /\ "t1" \in DOMAIN API_RESULT_CACHE
    /\ "t1" \in DOMAIN RAW_DATA_CACHE
    /\ \E k1, k2 \in DOMAIN API_RESULT_CACHE["t1"] :
          /\ k1[1] = "stats" /\ k2[1] = "act"
          /\ k1[2] = k2[2] /\ k1[3] = k2[3] /\ k1[4] = k2[4]
          /\ Len(API_RESULT_CACHE["t1"][k1].labels) >= 2
          /\ \E i \in DOMAIN API_RESULT_CACHE["t1"][k2].grid_cells :
                API_RESULT_CACHE["t1"][k2].grid_cells[i][4]
                  < API_RESULT_CACHE["t1"][k2].grid_cells[i][5]
          /\ API_RESULT_CACHE["t1"][k2].coords # <<>>
          /\ API_RESULT_CACHE["t1"][k2].coords[1]
               # SortActivities(RAW_DATA_CACHE["t1"])[1].polyline

====
